---- MODULE Spec2Model ----
(***************************************************************************)
(* The directory-tree serializer of local_repo2ai.py: the exclusion        *)
(* predicate, the recursive tree builder, the content loader and           *)
(* sanitizer, the renderer and the final write, as one state machine.      *)
(*                                                                         *)
(* Text is a sequence of characters.  A printable ASCII character is the   *)
(* one-character string (the grave accent, U+0060, is left out of the      *)
(* alphabet); a control or non-ASCII character is a named token ("TAB",    *)
(* "LF", "CR", "NUL", ...).  OrdOf gives the code point.                   *)
(* POSIX is assumed: os.sep is "/".                                        *)
(***************************************************************************)
EXTENDS Integers, Sequences, FiniteSets, TLC

\* ------------------------------------------------------------ characters

Printable == <<" ", "!", "\"", "#", "$", "%", "&", "'", "(", ")", "*", "+", ",", "-", ".", "/", "0", "1", "2", "3", "4", "5", "6", "7", "8", "9", ":", ";", "<", "=", ">", "?", "@", "A", "B", "C", "D", "E", "F", "G", "H", "I", "J", "K", "L", "M", "N", "O", "P", "Q", "R", "S", "T", "U", "V", "W", "X", "Y", "Z", "[", "\\", "]", "^", "_", "a", "b", "c", "d", "e", "f", "g", "h", "i", "j", "k", "l", "m", "n", "o", "p", "q", "r", "s", "t", "u", "v", "w", "x", "y", "z", "{", "|", "}", "~">>

ControlChars == {"NUL", "BS", "TAB", "LF", "VT", "FF", "CR", "SO", "US", "DEL", "APC", "NBSP", "UFFFD", "UFFFF"}

Chars == {Printable[i] : i \in DOMAIN Printable} \cup ControlChars

\* ord(c): the code point of a character.
OrdOf == [c \in Chars |->
            CASE c = "NUL" -> 0 [] c = "BS" -> 8 [] c = "TAB" -> 9 [] c = "LF" -> 10
              [] c = "VT" -> 11 [] c = "FF" -> 12 [] c = "CR" -> 13 [] c = "SO" -> 14
              [] c = "US" -> 31 [] c = "DEL" -> 127 [] c = "APC" -> 159
              [] c = "NBSP" -> 160 [] c = "UFFFD" -> 65533 [] c = "UFFFF" -> 65535
              [] OTHER -> LET i == CHOOSE j \in DOMAIN Printable : Printable[j] = c
                          IN IF i <= 64 THEN 31 + i ELSE 32 + i]

\* The number of bytes of a character in UTF-8 (the output file's encoding).
Utf8Len(c) == IF OrdOf[c] < 128 THEN 1 ELSE IF OrdOf[c] < 2048 THEN 2 ELSE 3

\* The concatenation of a sequence of texts.
RECURSIVE Flatten(_)
Flatten(ps) ==
    IF ps = <<>> THEN <<>>
    ELSE IF Len(ps) = 1 THEN ps[1]
    ELSE LET m == Len(ps) \div 2
         IN Flatten(SubSeq(ps, 1, m)) \o Flatten(SubSeq(ps, m + 1, Len(ps)))

\* len(s.encode('utf-8'))
Utf8Size(s) == Len(Flatten([i \in DOMAIN s |-> [j \in 1..Utf8Len(s[i]) |-> s[i]]]))

\* ------------------------------------------------------------ str methods

\* s.startswith(p)
StartsWith(s, p) == Len(s) >= Len(p) /\ SubSeq(s, 1, Len(p)) = p

\* s.endswith(p)
EndsWith(s, p) == Len(s) >= Len(p) /\ SubSeq(s, Len(s) - Len(p) + 1, Len(s)) = p

\* s.split(sep) for a one-character separator: count(sep) + 1 pieces, empty
\* pieces kept.
Split(s, sep) ==
    LET at == {i \in DOMAIN s : s[i] = sep}
        n == Cardinality(at)
        \* the position of the k-th separator; 0 and Len(s) + 1 bracket them
        pos(k) == IF k = 0 THEN 0
                  ELSE IF k = n + 1 THEN Len(s) + 1
                  ELSE CHOOSE i \in at : Cardinality({j \in at : j < i}) = k - 1
    IN [k \in 1..(n + 1) |-> SubSeq(s, pos(k - 1) + 1, pos(k) - 1)]

\* sep.join(parts)
Join(parts, sep) ==
    Flatten([i \in DOMAIN parts |-> IF i = 1 THEN parts[i] ELSE sep \o parts[i]])

\* str(n) for n >= 0
Digit(d) == Printable[17 + d]

RECURSIVE Str(_)
Str(n) == IF n < 10 THEN <<Digit(n)>> ELSE Str(n \div 10) \o <<Digit(n % 10)>>

\* a < b for str: lexicographic by code point
RECURSIVE StrLess(_, _)
StrLess(a, b) ==
    IF b = <<>> THEN FALSE
    ELSE IF a = <<>> THEN TRUE
    ELSE IF Head(a) = Head(b) THEN StrLess(Tail(a), Tail(b))
    ELSE OrdOf[Head(a)] < OrdOf[Head(b)]

\* sorted(names)
RECURSIVE Sorted(_)
Sorted(names) ==
    IF names = {} THEN <<>>
    ELSE LET m == CHOOSE x \in names : \A y \in names \ {x} : StrLess(x, y)
         IN <<m>> \o Sorted(names \ {m})

Sep == <<"/">>

\* ------------------------------------------------------------ filesystem

(***************************************************************************)
(* fs maps the path of every existing entry, a sequence of names below the *)
(* root (<<>> is the root itself), to its record:                          *)
(*   kind   "dir", "file" (regular file) or "link" (a dangling symlink:    *)
(*          os.path.isdir and os.path.isfile are both False)               *)
(*   fault  "none", or the error listing/opening the entry raises          *)
(*   size   st_size of a regular file                                      *)
(*   text   what decoding the file's bytes as UTF-8 (errors ignored) gives *)
(***************************************************************************)
Exists(f, p) == p \in DOMAIN f
IsDir(f, p) == Exists(f, p) /\ f[p].kind = "dir"
IsFile(f, p) == Exists(f, p) /\ f[p].kind = "file"

\* The names os.listdir(p) returns.
ListDir(f, p) == {q[Len(q)] : q \in {r \in DOMAIN f : Len(r) = Len(p) + 1 /\ SubSeq(r, 1, Len(p)) = p}}

\* os.path.relpath(item_path, repo_folder) of an entry below the root
RelPath(p) == Join(p, Sep)

\* ------------------------------------------------------------ exclusion

\* Mutant of WindowMatch: only the window at the start of the path is tried.
WindowMatchPrefixOnly(path_parts, exclude_parts) ==
    /\ Len(path_parts) >= Len(exclude_parts)
    /\ SubSeq(path_parts, 1, Len(exclude_parts)) = exclude_parts

\* path_parts[i:i+len(exclude_parts)] == exclude_parts for some window i
WindowMatch(path_parts, exclude_parts) ==
    /\ Len(path_parts) >= Len(exclude_parts)
    /\ \E i \in 0..(Len(path_parts) - Len(exclude_parts)) :
          SubSeq(path_parts, i + 1, i + Len(exclude_parts)) = exclude_parts

\* The first part of should_exclude_path: the excluded-file test, applied
\* only when os.path.isfile(path).
FileRuleMatch(f, p, exclude_files) ==
    /\ IsFile(f, p)
    /\ \E k \in DOMAIN exclude_files :
          \/ RelPath(p) = exclude_files[k]
          \/ EndsWith(RelPath(p), Sep \o exclude_files[k])

\* The second part: the excluded-folder test, a sliding window over the
\* segments of the relative path.
FolderRuleMatch(p, exclude_folders) ==
    LET path_parts == Split(RelPath(p), "/")
    IN \E k \in DOMAIN exclude_folders :
          WindowMatch(path_parts, Split(exclude_folders[k], "/"))

should_exclude_path(f, p, exclude_folders, exclude_files) ==
    FileRuleMatch(f, p, exclude_files) \/ FolderRuleMatch(p, exclude_folders)

\* ------------------------------------------------------------ language

\* c.lower() of one character
Lower(c) ==
    IF c \in ControlChars THEN c
    ELSE LET i == CHOOSE j \in DOMAIN Printable : Printable[j] = c
         IN IF i >= 34 /\ i <= 59 THEN Printable[i + 31] ELSE c

LowerStr(s) == [i \in DOMAIN s |-> Lower(s[i])]

\* os.path.splitext(item)[1]: from the last dot on, unless only dots come
\* before it.
SplitExt(item) ==
    LET dots == {i \in DOMAIN item : item[i] = "."}
    IN IF dots = {} THEN <<>>
       ELSE LET last == CHOOSE i \in dots : \A j \in dots : j <= i
            IN IF \E j \in 1..(last - 1) : item[j] # "."
               THEN SubSeq(item, last, Len(item))
               ELSE <<>>

extension_to_language ==
    { <<<<".", "p", "y">>, <<"p", "y", "t", "h", "o", "n">>>>, <<<<".", "j", "s">>, <<"j", "a", "v", "a", "s", "c", "r", "i", "p", "t">>>>, <<<<".", "t", "s">>, <<"t", "y", "p", "e", "s", "c", "r", "i", "p", "t">>>>,
      <<<<".", "j", "s", "x">>, <<"j", "a", "v", "a", "s", "c", "r", "i", "p", "t">>>>, <<<<".", "t", "s", "x">>, <<"t", "y", "p", "e", "s", "c", "r", "i", "p", "t">>>>, <<<<".", "j", "a", "v", "a">>, <<"j", "a", "v", "a">>>>,
      <<<<".", "c", "p", "p">>, <<"c", "p", "p">>>>, <<<<".", "c">>, <<"c">>>>, <<<<".", "c", "s">>, <<"c", "s", "h", "a", "r", "p">>>>,
      <<<<".", "h", "t", "m", "l">>, <<"h", "t", "m", "l">>>>, <<<<".", "c", "s", "s">>, <<"c", "s", "s">>>>, <<<<".", "r", "b">>, <<"r", "u", "b", "y">>>>,
      <<<<".", "p", "h", "p">>, <<"p", "h", "p">>>>, <<<<".", "g", "o">>, <<"g", "o">>>>, <<<<".", "r", "s">>, <<"r", "u", "s", "t">>>>,
      <<<<".", "s", "w", "i", "f", "t">>, <<"s", "w", "i", "f", "t">>>>, <<<<".", "k", "t">>, <<"k", "o", "t", "l", "i", "n">>>>, <<<<".", "s", "h">>, <<"b", "a", "s", "h">>>>,
      <<<<".", "m", "d">>, <<"m", "a", "r", "k", "d", "o", "w", "n">>>>, <<<<".", "j", "s", "o", "n">>, <<"j", "s", "o", "n">>>>, <<<<".", "x", "m", "l">>, <<"x", "m", "l">>>>,
      <<<<".", "y", "a", "m", "l">>, <<"y", "a", "m", "l">>>>, <<<<".", "y", "m", "l">>, <<"y", "a", "m", "l">>>>, <<<<".", "s", "q", "l">>, <<"s", "q", "l">>>>,
      <<<<".", "r">>, <<"r">>>>, <<<<".", "s", "c", "a", "l", "a">>, <<"s", "c", "a", "l", "a">>>> }

\* extension_to_language.get(ext.lower(), 'text')
Language(item) ==
    LET ext == LowerStr(SplitExt(item))
    IN IF \E e \in extension_to_language : e[1] = ext
       THEN (CHOOSE e \in extension_to_language : e[1] = ext)[2]
       ELSE <<"t", "e", "x", "t">>

\* ------------------------------------------------------------ loader

\* The size guard's limit, 10 * 1024 * 1024.
SizeLimit == 10 * 1024 * 1024

\* f.read() of a file opened in text mode with the default newline=None:
\* "\r\n" and a lone "\r" come back as "\n".
ReadText(t) ==
    Flatten([i \in DOMAIN t |->
               IF t[i] = "CR" THEN <<"LF">>
               ELSE IF t[i] = "LF" /\ i > 1 /\ t[i - 1] = "CR" THEN <<>>
               ELSE <<t[i]>>])

\* Mutant of InClass: the range \x7f-\x9f is left out of the class.
InClassLowOnly(c) ==
    LET o == OrdOf[c]
    IN \/ (o >= 0 /\ o <= 8)
       \/ o = 11
       \/ o = 12
       \/ (o >= 14 /\ o <= 31)

\* The character class [\x00-\x08\x0b\x0c\x0e-\x1f\x7f-\x9f]
InClass(c) ==
    LET o == OrdOf[c]
    IN \/ (o >= 0 /\ o <= 8)
       \/ o = 11
       \/ o = 12
       \/ (o >= 14 /\ o <= 31)
       \/ (o >= 127 /\ o <= 159)

\* re.sub(class, '', content)
Sanitize(t) == Flatten([i \in DOMAIN t |-> IF InClass(t[i]) THEN <<>> ELSE <<t[i]>>])

\* repo_folder as main passes it (an absolute path), and item_path
RepoFolder == <<"/", "r">>
ItemPath(p) == RepoFolder \o Sep \o RelPath(p)

\* str(e) of the error a fault raises
ErrorText(fault, p) ==
    CASE fault = "PermissionError" -> <<"[", "E", "r", "r", "n", "o", " ", "1", "3", "]", " ", "P", "e", "r", "m", "i", "s", "s", "i", "o", "n", " ", "d", "e", "n", "i", "e", "d", ":", " ", "'">> \o ItemPath(p) \o <<"'">>
      [] fault = "FileNotFoundError" -> <<"[", "E", "r", "r", "n", "o", " ", "2", "]", " ", "N", "o", " ", "s", "u", "c", "h", " ", "f", "i", "l", "e", " ", "o", "r", " ", "d", "i", "r", "e", "c", "t", "o", "r", "y", ":", " ", "'">> \o ItemPath(p) \o <<"'">>
      [] OTHER -> <<"[", "E", "r", "r", "n", "o", " ", "5", "]", " ", "I", "n", "p", "u", "t", "/", "o", "u", "t", "p", "u", "t", " ", "e", "r", "r", "o", "r">>

TooLargeText(file_size) == <<"[", "F", "i", "l", "e", " ", "t", "o", "o", " ", "l", "a", "r", "g", "e", ":", " ">> \o Str(file_size) \o <<" ", "b", "y", "t", "e", "s", "]">>
UnreadableText(fault, p) == <<"[", "B", "i", "n", "a", "r", "y", " ", "o", "r", " ", "u", "n", "r", "e", "a", "d", "a", "b", "l", "e", " ", "f", "i", "l", "e", ":", " ">> \o ErrorText(fault, p) \o <<"]">>

\* Mutant of TooLarge: the comparison is >= instead of >.
TooLargeAtLimit(file_size) == file_size >= SizeLimit

\* The size guard: file_size > 10 * 1024 * 1024
TooLarge(file_size) == file_size > SizeLimit

(***************************************************************************)
(* The try block of the file branch on the entry at p: what becomes the    *)
(* text of the content child, whether open() was called, and which branch  *)
(* produced it.  os.path.getsize follows a dangling link and raises        *)
(* FileNotFoundError; a PermissionError is raised by open(), an OSError by *)
(* read().                                                                 *)
(***************************************************************************)
LoadContent(f, p) ==
    LET e == f[p]
    IN IF e.kind = "link"
       THEN [text |-> UnreadableText("FileNotFoundError", p), opened |-> FALSE, how |-> "error"]
       ELSE IF TooLarge(e.size)
       THEN [text |-> TooLargeText(e.size), opened |-> FALSE, how |-> "large"]
       ELSE IF e.fault # "none"
       THEN [text |-> UnreadableText(e.fault, p), opened |-> TRUE, how |-> "error"]
       ELSE [text |-> Sanitize(ReadText(e.text)), opened |-> TRUE, how |-> "read"]

\* Mutant of ContentChildren: the except branch adds no content element.
ContentChildrenNoneOnError(f, p) ==
    IF LoadContent(f, p).how = "error" THEN <<>> ELSE <<LoadContent(f, p).text>>

\* The content children the file branch gives the file element.
ContentChildren(f, p) == <<LoadContent(f, p).text>>

\* The file element of the entry at p.
FileNode(f, p) ==
    [tag |-> "file", at |-> p,
     attrs |-> << <<<<"n", "a", "m", "e">>, p[Len(p)]>>, <<<<"p", "a", "t", "h">>, RelPath(p)>>,
                  <<<<"l", "a", "n", "g", "u", "a", "g", "e">>, Language(p[Len(p)])>> >>,
     contents |-> ContentChildren(f, p)]

\* The directory element of the entry at p.
DirNode(p) ==
    [tag |-> "directory", at |-> p,
     attrs |-> << <<<<"n", "a", "m", "e">>, p[Len(p)]>>, <<<<"p", "a", "t", "h">>, RelPath(p)>> >>,
     contents |-> <<>>]


\* ------------------------------------------------------------ renderer

\* Char of XML 1.0: what the parser behind minidom.parseString accepts.
XmlChar(c) ==
    LET o == OrdOf[c]
    IN \/ o \in {9, 10, 13}
       \/ (o >= 32 /\ o <= 55295)
       \/ (o >= 57344 /\ o <= 65533)

WellFormedText(t) == {i \in DOMAIN t : ~XmlChar(t[i])} = {}

\* Every attribute value and content text of the tree is made of XML
\* characters; otherwise parseString raises ExpatError.
Parses(header, nodes) ==
    /\ \A i \in DOMAIN header : WellFormedText(header[i][2])
    /\ \A i \in DOMAIN nodes :
          /\ \A j \in DOMAIN nodes[i].attrs : WellFormedText(nodes[i].attrs[j][2])
          /\ \A j \in DOMAIN nodes[i].contents : WellFormedText(nodes[i].contents[j])

\* minidom's _write_data
Escape(t) ==
    Flatten([i \in DOMAIN t |->
               CASE t[i] = "&" -> <<"&", "a", "m", "p", ";">>
                 [] t[i] = "<" -> <<"&", "l", "t", ";">>
                 [] t[i] = "\"" -> <<"&", "q", "u", "o", "t", ";">>
                 [] t[i] = ">" -> <<"&", "g", "t", ";">>
                 [] OTHER -> <<t[i]>>])

RECURSIVE Indent(_)
Indent(d) == IF d = 0 THEN <<>> ELSE <<" ", " ">> \o Indent(d - 1)

AttrText(attrs) ==
    Flatten([i \in DOMAIN attrs |->
               <<" ">> \o attrs[i][1] \o <<"=", "\\", "\"">> \o Escape(attrs[i][2]) \o <<"\\", "\"">>])

\* An element at depth d whose children, already rendered, are inner.
Element(d, tag, attrs, inner) ==
    IF inner = <<>>
    THEN Indent(d) \o <<"<">> \o tag \o AttrText(attrs) \o <<"/", ">">> \o <<"LF">>
    ELSE Indent(d) \o <<"<">> \o tag \o AttrText(attrs) \o <<">">> \o <<"LF">>
         \o inner \o Indent(d) \o <<"<", "/">> \o tag \o <<">">> \o <<"LF">>

\* The text of an element as the parser reports it: line ends normalised,
\* "\r\n" and "\r" to "\n" (the mapping of ReadText).
ParsedText(t) == ReadText(t)

\* A content element: its text, when it has one, is written inline.
ContentElement(d, t) ==
    IF t = <<>> THEN Indent(d) \o <<"<", "c", "o", "n", "t", "e", "n", "t", "/", ">">> \o <<"LF">>
    ELSE Indent(d) \o <<"<", "c", "o", "n", "t", "e", "n", "t", ">">> \o Escape(ParsedText(t)) \o <<"<", "/", "c", "o", "n", "t", "e", "n", "t", ">">> \o <<"LF">>

ContentElements(d, ts) == Flatten([i \in DOMAIN ts |-> ContentElement(d, ts[i])])

\* The elements appended to the element of the directory at p, in order.
ChildrenOf(nodes, p) ==
    SelectSeq(nodes, LAMBDA n : Len(n.at) = Len(p) + 1 /\ SubSeq(n.at, 1, Len(p)) = p)

RECURSIVE NodesText(_, _, _)
NodesText(nodes, kids, d) ==
    Flatten([i \in DOMAIN kids |->
               IF kids[i].tag = "file"
               THEN Element(d, <<"f", "i", "l", "e">>, kids[i].attrs, ContentElements(d + 1, kids[i].contents))
               ELSE Element(d, <<"d", "i", "r", "e", "c", "t", "o", "r", "y">>, kids[i].attrs,
                            NodesText(nodes, ChildrenOf(nodes, kids[i].at), d + 1))])

\* reparsed.toprettyxml(indent="  ")
PrettyXml(header, nodes) ==
    <<"<", "?", "x", "m", "l", " ", "v", "e", "r", "s", "i", "o", "n", "=", "\\", "\"", "1", ".", "0", "\\", "\"", " ", "?", ">">> \o <<"LF">>
    \o Element(0, <<"r", "e", "p", "o", "s", "i", "t", "o", "r", "y">>, header,
               Element(1, <<"s", "t", "r", "u", "c", "t", "u", "r", "e">>, <<>>, NodesText(nodes, ChildrenOf(nodes, <<>>), 2)))

\* line.strip() is empty
IsSpace(c) == c \in {" ", "TAB", "LF", "VT", "FF", "CR", "US", "NBSP"}
Blank(line) == \A i \in DOMAIN line : IsSpace(line[i])

\* '\n'.join(line for line in pretty_xml.split('\n') if line.strip())
FinalXml(pretty_xml) ==
    Join(SelectSeq(Split(pretty_xml, "LF"), LAMBDA line : ~Blank(line)), <<"LF">>)

\* os.path.basename(repo_folder)
BaseName(path) == LET parts == Split(path, "/") IN parts[Len(parts)]

\* The attributes of the repository element.
Header(exclude_folders, exclude_files) ==
    << <<<<"s", "o", "u", "r", "c", "e", "_", "p", "a", "t", "h">>, RepoFolder>>, <<<<"n", "a", "m", "e">>, BaseName(RepoFolder)>> >>
    \o (IF exclude_folders # <<>>
        THEN << <<<<"e", "x", "c", "l", "u", "d", "e", "d", "_", "f", "o", "l", "d", "e", "r", "s">>, Join(exclude_folders, <<",", " ">>)>> >> ELSE <<>>)
    \o (IF exclude_files # <<>>
        THEN << <<<<"e", "x", "c", "l", "u", "d", "e", "d", "_", "f", "i", "l", "e", "s">>, Join(exclude_files, <<",", " ">>)>> >> ELSE <<>>)


\* ------------------------------------------------------------ inputs

MaxDepth == 2
MaxEntries == 2
MaxLen == 2
MaxRuns == 2

DirEntry(fault) == [kind |-> "dir", fault |-> fault, size |-> 0, text |-> <<>>]
FileEntry(fault, size, text) == [kind |-> "file", fault |-> fault, size |-> size, text |-> text]
LinkEntry == [kind |-> "link", fault |-> "none", size |-> 0, text |-> <<>>]
TextFile(text) == FileEntry("none", Utf8Size(text), text)

Front(p) == SubSeq(p, 1, Len(p) - 1)

\* The output target when it lies outside the traversed root: the state of
\* its directory ("dir", "missing" or "readonly") and the file in it.
NoFile == [exists |-> FALSE, text |-> <<>>]
Outside == [inside |-> FALSE, rel |-> <<>>]
Inside(p) == [inside |-> TRUE, rel |-> p]
FreshTarget == [dir |-> "dir", file |-> NoFile]

\* First family, the shape of the tree: up to MaxEntries entries below a
\* listable root, at most MaxDepth deep, named from TreeNames, each a
\* directory (listable or not), a small text file or a dangling link.
TreeNames == {<<".", "h">>, <<"a", "b">>, <<"b">>, <<"s">>}
TreeEntries == {DirEntry("none"), DirEntry("PermissionError"), TextFile(<<"h", "i">>), LinkEntry}

RECURSIVE PathsUpTo(_)
PathsUpTo(d) ==
    IF d = 0 THEN {<<>>}
    ELSE LET shorter == PathsUpTo(d - 1)
         IN shorter \cup {Append(p, n) : p \in {q \in shorter : Len(q) = d - 1}, n \in TreeNames}

RECURSIVE Trees(_)
Trees(n) ==
    IF n = 0 THEN {(<<>> :> DirEntry("none"))}
    ELSE LET smaller == Trees(n - 1)
         IN smaller \cup
            UNION {{t @@ (p :> e) :
                      p \in {q \in PathsUpTo(MaxDepth) \ DOMAIN t : IsDir(t, Front(q))},
                      e \in TreeEntries} : t \in smaller}

TreeRules ==
    {<<xf, xl>> : xf \in {<<>>, <<<<"s">>>>, <<<<"s", "/", "b">>>>}, xl \in {<<>>, <<<<"b">>>>}}

TreeInputs ==
    {[fs |-> t, ext |-> FreshTarget,
      args |-> [entry |-> "main", out |-> Outside,
                exclude_folders |-> r[1], exclude_files |-> r[2], runs |-> 1]] :
       t \in Trees(MaxEntries), r \in TreeRules}

\* Second family, the content of a file: one file a.PY in the root, any text
\* of up to MaxLen characters of LoadChars, or a short text with a size
\* around the limit (the text then stands for the file's first characters)
\* and a fault.
LoadChars == {"x", " ", "<", "&", "TAB", "LF", "CR", "NUL", "BS", "VT", "FF", "SO", "US",
              "DEL", "APC", "NBSP", "UFFFD", "UFFFF"}

RECURSIVE Texts(_)
Texts(n) ==
    IF n = 0 THEN {<<>>}
    ELSE LET shorter == Texts(n - 1)
         IN shorter \cup {Append(t, c) : t \in {u \in shorter : Len(u) = n - 1}, c \in LoadChars}

LoadFiles ==
    {TextFile(t) : t \in Texts(MaxLen)}
    \cup {FileEntry(fault, size, <<"h", "i">>) :
            fault \in {"none", "PermissionError", "OSError"},
            size \in {2, SizeLimit - 1, SizeLimit, SizeLimit + 1, 2 * SizeLimit}}

LoadInputs ==
    {[fs |-> (<<>> :> DirEntry("none")) @@ (<<<<"a", ".", "P", "Y">>>> :> e), ext |-> FreshTarget,
      args |-> [entry |-> "call", out |-> Outside,
                exclude_folders |-> <<>>, exclude_files |-> <<>>, runs |-> 1]] :
       e \in LoadFiles}

\* Third family, the root and the output path: a root that is a directory,
\* a regular file or missing; an output path outside or inside the root;
\* the tool run MaxRuns times.
Roots ==
    { [p \in {} |-> LinkEntry],
      (<<>> :> TextFile(<<"h", "i">>)),
      (<<>> :> DirEntry("none")),
      (<<>> :> DirEntry("PermissionError")),
      (<<>> :> DirEntry("none")) @@ (<<<<"b">>>> :> TextFile(<<"x", "=", "1">>)),
      (<<>> :> DirEntry("none")) @@ (<<<<"a", "b">>>> :> DirEntry("PermissionError"))
         @@ (<<<<"s">>>> :> DirEntry("none")) @@ (<<<<"s">>, <<"b">>>> :> TextFile(<<"h", "i">>)) }

Targets ==
    {[out |-> Outside, ext |-> [dir |-> d, file |-> f]] :
        d \in {"dir", "missing", "readonly"},
        f \in {NoFile, [exists |-> TRUE, text |-> <<"o", "l", "d">>]}}
    \cup {[out |-> Inside(p), ext |-> FreshTarget] :
            p \in {<<<<"o", ".", "x", "m", "l">>>>, <<<<".", "h">>>>, <<<<"b">>>>, <<<<"s">>>>, <<<<"b">>, <<"o", ".", "x", "m", "l">>>>,
                   <<<<"d">>, <<"o", ".", "x", "m", "l">>>>}}

RunRules == {<< <<>>, <<>> >>, << <<<<"s">>, <<"d", "/">>>>, <<<<"o", ".", "x", "m", "l">>, <<"b">>>> >>}

RunInputs ==
    {[fs |-> t, ext |-> o.ext,
      args |-> [entry |-> en, out |-> o.out,
                exclude_folders |-> r[1], exclude_files |-> r[2], runs |-> MaxRuns]] :
       t \in Roots, o \in {x \in Targets : x.ext.dir = "dir" \/ ~x.ext.file.exists},
       en \in {"main", "call"}, r \in RunRules}

Inputs == TreeInputs \cup LoadInputs \cup RunInputs

\* ------------------------------------------------------------ state

VARIABLES
    fs,         \* the filesystem below (and including) repo_folder
    ext,        \* the output target when it is outside repo_folder
    args,       \* the arguments of the runs: entry point, rules, output path
    run,        \* the number of the current run
    pc,         \* the position of the current run
    cur,        \* the directory build_structure_xml was just called on
    stack,      \* the active build_structure_xml loops: directory and items left
    nodes,      \* the elements appended to the tree, in order
    final_xml,  \* the text to save
    result,     \* how describe_repo_contents_xml ended: "none", "ok" or the error
    status,     \* what main returned: "none", "0" or "1"
    listed,     \* history: the directories os.listdir was called on
    consulted,  \* history: the paths should_exclude_path was called on
    opened,     \* history: the files open() was called on for reading
    before,     \* history: fs and ext when the run began
    outputs     \* history: what each finished run left in the output file

vars == <<fs, ext, args, run, pc, cur, stack, nodes, final_xml, result, status,
          listed, consulted, opened, before, outputs>>

Init ==
    /\ \E in \in Inputs : fs = in.fs /\ ext = in.ext /\ args = in.args
    /\ run = 1
    /\ pc = "start"
    /\ cur = <<>>
    /\ stack = <<>>
    /\ nodes = <<>>
    /\ final_xml = <<>>
    /\ result = "none"
    /\ status = "none"
    /\ listed = {}
    /\ consulted = {}
    /\ opened = {}
    /\ before = [fs |-> fs, ext |-> ext]
    /\ outputs = <<>>

\* ------------------------------------------------------------ main

\* Mutant of RootValid: os.path.exists in place of os.path.isdir.
RootExists == Exists(fs, <<>>)

\* os.path.isdir(repo_folder), and main's two tests of source_path
RootValid == IsDir(fs, <<>>)

\* main, lines 210-216: the source path does not exist or is no directory.
MainRejects ==
    /\ pc = "start" /\ args.entry = "main" /\ ~RootValid
    /\ pc' = "exit" /\ status' = "1"
    /\ UNCHANGED <<fs, ext, args, run, cur, stack, nodes, final_xml, result,
                   listed, consulted, opened, before, outputs>>

\* main calls describe_repo_contents_xml, or a caller does directly.
Call ==
    /\ pc = "start" /\ (args.entry = "main" => RootValid)
    /\ pc' = "validate"
    /\ UNCHANGED <<fs, ext, args, run, cur, stack, nodes, final_xml, result, status,
                   listed, consulted, opened, before, outputs>>

\* Lines 141-142: raise ValueError.
ValidateRaises ==
    /\ pc = "validate" /\ ~RootValid
    /\ pc' = "raised" /\ result' = "ValueError"
    /\ UNCHANGED <<fs, ext, args, run, cur, stack, nodes, final_xml, status,
                   listed, consulted, opened, before, outputs>>

\* Lines 144-164: the root element, then build_structure_xml on repo_folder.
ValidateOk ==
    /\ pc = "validate" /\ RootValid
    /\ pc' = "list" /\ cur' = <<>>
    /\ UNCHANGED <<fs, ext, args, run, stack, nodes, final_xml, result, status,
                   listed, consulted, opened, before, outputs>>

\* ------------------------------------------------------------ build_structure_xml

\* Lines 43-44: items = sorted(os.listdir(path))
ListItems ==
    /\ pc = "list" /\ fs[cur].fault = "none"
    /\ stack' = Append(stack, [path |-> cur, items |-> Sorted(ListDir(fs, cur))])
    /\ listed' = listed \cup {cur}
    /\ pc' = "loop"
    /\ UNCHANGED <<fs, ext, args, run, cur, nodes, final_xml, result, status,
                   consulted, opened, before, outputs>>

\* Lines 45-48: PermissionError, the call returns at once.
ListDenied ==
    /\ pc = "list" /\ fs[cur].fault = "PermissionError"
    /\ listed' = listed \cup {cur}
    /\ pc' = "loop"
    /\ UNCHANGED <<fs, ext, args, run, cur, stack, nodes, final_xml, result, status,
                   consulted, opened, before, outputs>>

Top == stack[Len(stack)]
Item == Head(Top.items)
ItemAt == Append(Top.path, Item)
HasItem == pc = "loop" /\ stack # <<>> /\ Top.items # <<>>
Advanced == [stack EXCEPT ![Len(stack)].items = Tail(@)]

\* Mutant of Hidden: only the names "." and ".." are skipped.
HiddenDotsOnly(item) == item \in {<<".">>, <<".", ".">>}

\* Lines 52-53: a name starting with "." is skipped.
Hidden(item) == StartsWith(item, <<".">>)

SkipHidden ==
    /\ HasItem /\ Hidden(Item)
    /\ stack' = Advanced
    /\ UNCHANGED <<fs, ext, args, run, pc, cur, nodes, final_xml, result, status,
                   listed, consulted, opened, before, outputs>>

Excluded(p) == should_exclude_path(fs, p, args.exclude_folders, args.exclude_files)

\* Lines 58-60: an excluded path is skipped.
SkipExcluded ==
    /\ HasItem /\ ~Hidden(Item) /\ Excluded(ItemAt)
    /\ consulted' = consulted \cup {ItemAt}
    /\ stack' = Advanced
    /\ UNCHANGED <<fs, ext, args, run, pc, cur, nodes, final_xml, result, status,
                   listed, opened, before, outputs>>

\* Whether the loop enters the directory branch (line 62).
TakesDirBranch(p) == IsDir(fs, p)

\* Lines 62-70: the directory element, then the recursive call.
VisitDirectory ==
    /\ HasItem /\ ~Hidden(Item) /\ ~Excluded(ItemAt) /\ TakesDirBranch(ItemAt)
    /\ consulted' = consulted \cup {ItemAt}
    /\ nodes' = Append(nodes, DirNode(ItemAt))
    /\ stack' = Advanced
    /\ cur' = ItemAt
    /\ pc' = "list"
    /\ UNCHANGED <<fs, ext, args, run, final_xml, result, status,
                   listed, opened, before, outputs>>

\* Lines 71-138: the file element and its content child.
VisitFile ==
    /\ HasItem /\ ~Hidden(Item) /\ ~Excluded(ItemAt) /\ ~TakesDirBranch(ItemAt)
    /\ consulted' = consulted \cup {ItemAt}
    /\ nodes' = Append(nodes, FileNode(fs, ItemAt))
    /\ opened' = IF LoadContent(fs, ItemAt).opened THEN opened \cup {ItemAt} ELSE opened
    /\ stack' = Advanced
    /\ UNCHANGED <<fs, ext, args, run, pc, cur, final_xml, result, status,
                   listed, before, outputs>>

\* The for loop of a call ends: the call returns to its caller's loop.
Return ==
    /\ pc = "loop" /\ stack # <<>> /\ Top.items = <<>>
    /\ stack' = SubSeq(stack, 1, Len(stack) - 1)
    /\ UNCHANGED <<fs, ext, args, run, pc, cur, nodes, final_xml, result, status,
                   listed, consulted, opened, before, outputs>>

\* The outermost call has returned (line 164 is done).
BuildDone ==
    /\ pc = "loop" /\ stack = <<>>
    /\ pc' = "makedirs"
    /\ UNCHANGED <<fs, ext, args, run, cur, stack, nodes, final_xml, result, status,
                   listed, consulted, opened, before, outputs>>


\* ------------------------------------------------------------ write

OutRel == args.out.rel

\* The entry, if any, standing where a directory of output_dir has to be.
Blocked == \E k \in 1..(Len(OutRel) - 1) :
              Exists(fs, SubSeq(OutRel, 1, k)) /\ ~IsDir(fs, SubSeq(OutRel, 1, k))

\* Lines 171-173: os.makedirs(output_dir, exist_ok=True)
MakeDirs ==
    /\ pc = "makedirs"
    /\ IF args.out.inside
       THEN /\ ~Blocked
            /\ fs' = [p \in DOMAIN fs \cup {SubSeq(OutRel, 1, k) : k \in 1..(Len(OutRel) - 1)} |->
                        IF Exists(fs, p) THEN fs[p] ELSE DirEntry("none")]
            /\ ext' = ext
       ELSE /\ ext' = [ext EXCEPT !.dir = IF @ = "missing" THEN "dir" ELSE @]
            /\ fs' = fs
    /\ pc' = "format"
    /\ UNCHANGED <<args, run, cur, stack, nodes, final_xml, result, status,
                   listed, consulted, opened, before, outputs>>

\* os.makedirs raises: a file or link stands where a directory has to be.
MakeDirsRaises ==
    /\ pc = "makedirs" /\ args.out.inside /\ Blocked
    /\ pc' = "raised" /\ result' = "FileExistsError"
    /\ UNCHANGED <<fs, ext, args, run, cur, stack, nodes, final_xml, status,
                   listed, consulted, opened, before, outputs>>

RootAttrs == Header(args.exclude_folders, args.exclude_files)

\* Lines 177-183: tostring, parseString, toprettyxml, the blank-line filter.
Format ==
    /\ pc = "format" /\ Parses(RootAttrs, nodes)
    /\ final_xml' = FinalXml(PrettyXml(RootAttrs, nodes))
    /\ pc' = "save"
    /\ UNCHANGED <<fs, ext, args, run, cur, stack, nodes, result, status,
                   listed, consulted, opened, before, outputs>>

\* minidom.parseString raises ExpatError.
FormatRaises ==
    /\ pc = "format" /\ ~Parses(RootAttrs, nodes)
    /\ pc' = "raised" /\ result' = "ExpatError"
    /\ UNCHANGED <<fs, ext, args, run, cur, stack, nodes, final_xml, status,
                   listed, consulted, opened, before, outputs>>

\* The error, if any, open(output_path, 'w') raises.
OpenError ==
    IF args.out.inside
    THEN IF ~Exists(fs, OutRel) THEN "none"
         ELSE IF fs[OutRel].kind = "dir" THEN "IsADirectoryError"
         ELSE IF fs[OutRel].kind = "link" THEN "FileNotFoundError"
         ELSE fs[OutRel].fault
    ELSE IF ext.dir = "readonly" /\ ~ext.file.exists THEN "PermissionError" ELSE "none"

\* Mutant of Written: the file is opened for appending.
WrittenAppended(old, new) == old \o new

\* What a file that held old holds after open(output_path, 'w') and
\* f.write(new): the mode truncates it.
Written(old, new) == new

\* Lines 186-190: the file is written and output_path returned.
Save ==
    /\ pc = "save" /\ OpenError = "none"
    /\ IF args.out.inside
       THEN /\ fs' = [p \in DOMAIN fs \cup {OutRel} |->
                        IF p = OutRel
                        THEN TextFile(Written(IF Exists(fs, p) THEN fs[p].text ELSE <<>>, final_xml))
                        ELSE fs[p]]
            /\ ext' = ext
       ELSE /\ ext' = [ext EXCEPT !.file = [exists |-> TRUE, text |-> Written(@.text, final_xml)]]
            /\ fs' = fs
    /\ pc' = "returned" /\ result' = "ok"
    /\ UNCHANGED <<args, run, cur, stack, nodes, final_xml, status,
                   listed, consulted, opened, before, outputs>>

SaveRaises ==
    /\ pc = "save" /\ OpenError # "none"
    /\ pc' = "raised" /\ result' = OpenError
    /\ UNCHANGED <<fs, ext, args, run, cur, stack, nodes, final_xml, status,
                   listed, consulted, opened, before, outputs>>

\* What the output path holds.
OutputFile ==
    IF args.out.inside
    THEN IF IsFile(fs, OutRel) THEN [exists |-> TRUE, text |-> fs[OutRel].text] ELSE NoFile
    ELSE ext.file

\* Lines 226-228: main returns 0; a direct caller gets output_path.
Returns ==
    /\ pc = "returned"
    /\ status' = IF args.entry = "main" THEN "0" ELSE "none"
    /\ pc' = "exit"
    /\ UNCHANGED <<fs, ext, args, run, cur, stack, nodes, final_xml, result,
                   listed, consulted, opened, before, outputs>>

\* Lines 192-194 re-raise; lines 229-231: main returns 1.
Raises ==
    /\ pc = "raised"
    /\ status' = IF args.entry = "main" THEN "1" ELSE "none"
    /\ pc' = "exit"
    /\ UNCHANGED <<fs, ext, args, run, cur, stack, nodes, final_xml, result,
                   listed, consulted, opened, before, outputs>>

\* The run is over; what it left at the output path is recorded.
Finish ==
    /\ pc = "exit"
    /\ outputs' = Append(outputs, OutputFile)
    /\ pc' = "done"
    /\ UNCHANGED <<fs, ext, args, run, cur, stack, nodes, final_xml, result, status,
                   listed, consulted, opened, before>>

\* The tool is run again, with the same arguments, on what is there now.
NextRun ==
    /\ pc = "done" /\ run < args.runs
    /\ run' = run + 1
    /\ pc' = "start"
    /\ cur' = <<>> /\ stack' = <<>> /\ nodes' = <<>> /\ final_xml' = <<>>
    /\ result' = "none" /\ status' = "none"
    /\ listed' = {} /\ consulted' = {} /\ opened' = {}
    /\ before' = [fs |-> fs, ext |-> ext]
    /\ UNCHANGED <<fs, ext, args, outputs>>

Next ==
    \/ MainRejects \/ Call \/ ValidateRaises \/ ValidateOk
    \/ ListItems \/ ListDenied
    \/ SkipHidden \/ SkipExcluded \/ VisitDirectory \/ VisitFile \/ Return \/ BuildDone
    \/ MakeDirs \/ MakeDirsRaises \/ Format \/ FormatRaises \/ Save \/ SaveRaises
    \/ Returns \/ Raises \/ Finish \/ NextRun

Spec == Init /\ [][Next]_vars

TypeOK ==
    /\ pc \in {"start", "validate", "list", "loop", "makedirs", "format", "save",
               "returned", "raised", "exit", "done"}
    /\ status \in {"none", "0", "1"}
    /\ run \in 1..MaxRuns


\* ------------------------------------------------------------ properties

Ended == pc = "done"
NodeSet == {nodes[i] : i \in DOMAIN nodes}
InTree(p) == \E n \in NodeSet : n.at = p
Below(q, p) == Len(q) > Len(p) /\ SubSeq(q, 1, Len(p)) = p
DotName(name) == name # <<>> /\ name[1] = "."

\* The segments of p hold, somewhere, the segments of one of the patterns.
HasRun(p, patterns) ==
    \E k \in DOMAIN patterns : \E i \in 1..Len(p) : \E j \in i..Len(p) :
        SubSeq(p, i, j) = Split(patterns[k], "/")

\* The relative path of p is a pattern, or ends with "/" and the pattern.
NamedBy(p, patterns) ==
    \E k \in DOMAIN patterns :
        \/ RelPath(p) = patterns[k]
        \/ EndsWith(RelPath(p), <<"/">> \o patterns[k])

\* C1: no directory whose relative path holds a contiguous run of segments
\* equal to an excluded-folder pattern's segments is in the tree, nor is any
\* entry below such a directory; and should_exclude_path is false of every
\* node of the tree.
C1_ExcludedFoldersAbsent ==
    \A n \in NodeSet :
        /\ \A k \in 1..Len(n.at) :
              (k < Len(n.at) \/ n.tag = "directory")
                 => ~HasRun(SubSeq(n.at, 1, k), args.exclude_folders)
        /\ ~should_exclude_path(before.fs, n.at, args.exclude_folders, args.exclude_files)

\* C1 witness: a run has ended whose tree holds a node, and a directory the
\* traversal met matches a pattern and has an entry below it.
C1_Witness ==
    /\ Ended /\ result = "ok" /\ nodes # <<>>
    /\ \E p \in consulted, q \in DOMAIN before.fs :
          /\ IsDir(before.fs, p) /\ Below(q, p)
          /\ HasRun(p, args.exclude_folders)

\* C2: of the entries the traversal treats as files, one named by an
\* excluded-file pattern (its relative path is the pattern or ends with "/"
\* and the pattern) is absent from the tree, and one named by no file
\* pattern and matched by no folder pattern is in the tree.
C2_FileRuleDecides ==
    \A p \in consulted :
        ~IsDir(before.fs, p) =>
            /\ NamedBy(p, args.exclude_files) => ~InTree(p)
            /\ (~NamedBy(p, args.exclude_files) /\ ~HasRun(p, args.exclude_folders)) => InTree(p)

\* C3: no entry whose name begins with "." is in the tree, nor anything
\* below a hidden directory, whatever the exclusion lists; the exclusion
\* predicate is never consulted on a hidden entry.
C3_HiddenAbsent ==
    /\ \A n \in NodeSet : \A k \in 1..Len(n.at) : ~DotName(n.at[k])
    /\ \A p \in consulted : \A k \in 1..Len(p) : ~DotName(p[k])

\* C3 witness: a run has ended that listed a directory holding a hidden
\* directory with an entry below it.
C3_Witness ==
    /\ Ended /\ result = "ok"
    /\ \E p \in DOMAIN before.fs, q \in DOMAIN before.fs :
          /\ p # <<>> /\ Front(p) \in listed /\ DotName(p[Len(p)])
          /\ IsDir(before.fs, p) /\ Below(q, p)

\* C4: when listing a directory below the root fails with a permission
\* error, the tree holds no node for that directory nor for anything below
\* it.
C4_DeniedDirectoryOmitted ==
    \A p \in listed :
        (p # <<>> /\ before.fs[p].fault = "PermissionError")
            => \A n \in NodeSet : n.at # p /\ ~Below(n.at, p)

TenMiB == 10485760

\* The placeholder of a file of n bytes that is too large.
C6_Placeholder(n) == <<"[", "F", "i", "l", "e", " ", "t", "o", "o", " ", "l", "a", "r", "g", "e", ":", " ">> \o Str(n) \o <<" ", "b", "y", "t", "e", "s", "]">>

\* C6: a regular file of at most 10 MiB is opened and its node does not hold
\* the size placeholder; one of 10 MiB + 1 bytes or more is never opened and
\* its node holds the placeholder reporting its size.
C6_SizeGuard ==
    \A n \in NodeSet :
        IsFile(before.fs, n.at) =>
            LET size == before.fs[n.at].size
            IN /\ size <= TenMiB => (n.at \in opened /\ n.contents # <<C6_Placeholder(size)>>)
               /\ size >= TenMiB + 1 => (n.at \notin opened /\ n.contents = <<C6_Placeholder(size)>>)

\* C6 witness: a file of exactly 10 MiB was read and its text is its node's
\* content.
C6_Witness ==
    \E n \in NodeSet :
        /\ IsFile(before.fs, n.at) /\ before.fs[n.at].size = TenMiB
        /\ before.fs[n.at].fault = "none" /\ n.contents = <<before.fs[n.at].text>>

\* The characters the claim calls disallowed, by code point.
C7_Disallowed ==
    {c \in Chars : OrdOf[c] \in (0..8) \cup {11, 12} \cup (14..31) \cup (127..159)}

\* The node of a file that was read: a file within the size limit whose
\* open and read raised nothing.
WasRead(n) ==
    /\ IsFile(before.fs, n.at) /\ before.fs[n.at].fault = "none"
    /\ before.fs[n.at].size <= TenMiB

\* C7: the content stored for a file that was read is the file's text with
\* exactly the disallowed characters removed, so the text itself when it has
\* none.
C7_OnlyDisallowedRemoved ==
    \A n \in NodeSet :
        WasRead(n) =>
            n.contents = <<SelectSeq(before.fs[n.at].text, LAMBDA c : c \notin C7_Disallowed)>>

\* The text with every "\r\n" and every other "\r" turned into "\n": the
\* "\n" of a "\r\n" is marked and dropped, each "\r" becomes "\n".
C7_Newlines(t) ==
    SelectSeq([i \in DOMAIN t |->
                 IF t[i] = "CR" THEN "LF"
                 ELSE IF t[i] = "LF" /\ i > 1 /\ t[i - 1] = "CR" THEN "dropped"
                 ELSE t[i]],
              LAMBDA c : c # "dropped")

\* C7, amended: the content stored for a file that was read is the file's
\* decoded text with every "\r\n" and every lone "\r" turned into "\n" and
\* then exactly the disallowed characters removed, every other character
\* kept in order; a text with no "\r" and no disallowed character is stored
\* as it is.
C7_NewlinesThenDisallowedRemoved ==
    \A n \in NodeSet :
        WasRead(n) =>
            LET text == before.fs[n.at].text
            IN /\ n.contents = <<SelectSeq(C7_Newlines(text), LAMBDA c : c \notin C7_Disallowed)>>
               /\ (\A i \in DOMAIN text : text[i] # "CR" /\ text[i] \notin C7_Disallowed)
                     => n.contents = <<text>>

\* C7 witness: a file whose text holds a disallowed character and no "\r"
\* was read, and its content is shorter than its text.
C7_Witness ==
    \E n \in NodeSet :
        /\ WasRead(n)
        /\ \E i \in DOMAIN before.fs[n.at].text : before.fs[n.at].text[i] \in C7_Disallowed
        /\ \A i \in DOMAIN before.fs[n.at].text : before.fs[n.at].text[i] # "CR"
        /\ Len(n.contents[1]) < Len(before.fs[n.at].text)

\* C8: when the root does not exist or is no directory, no directory is
\* listed, no file is read, nothing is created or written, the call of
\* describe_repo_contents_xml (if made) raises and main returns 1.
C8_InvalidRootAborts ==
    ~IsDir(before.fs, <<>>) =>
        /\ listed = {} /\ opened = {} /\ consulted = {} /\ nodes = <<>>
        /\ fs = before.fs /\ ext = before.ext
        /\ result \in {"none", "ValueError"}
        /\ pc \notin {"list", "loop", "makedirs", "format", "save", "returned"}
        /\ Ended => IF args.entry = "main" THEN status = "1" ELSE result = "ValueError"

\* C8 witness: a run of main on a root that is no directory has ended, its
\* output directory still missing.
C8_Witness ==
    /\ Ended /\ ~IsDir(before.fs, <<>>) /\ args.entry = "main" /\ status = "1"
    /\ ~args.out.inside /\ ext.dir = "missing"

\* C9: a run on a valid root with a writable output path always ends with
\* the output file written in full and no error raised, whatever the
\* entries of the tree are and hold.
C9_OnlyFatalAborts ==
    (Ended /\ IsDir(before.fs, <<>>) /\ ~args.out.inside /\ ext.dir # "readonly")
        => /\ result = "ok"
           /\ ext.file = [exists |-> TRUE, text |-> final_xml]

\* The text starts with the failure placeholder's opening.
C10_FailureText(t) == StartsWith(t, <<"[", "B", "i", "n", "a", "r", "y", " ", "o", "r", " ", "u", "n", "r", "e", "a", "d", "a", "b", "l", "e", " ", "f", "i", "l", "e", ":", " ">>) /\ t[Len(t)] = "]"

\* C10: every entry the exclusion predicate let through that is no directory
\* has exactly one node, a file node with the attributes name, path and
\* language and exactly one content child: the size placeholder for a file
\* over 10 MiB, the failure placeholder when getting the size, opening or
\* reading fails, the sanitized text otherwise; and no such failure ends the
\* build.
C10_FileNodeOnEveryPath ==
    /\ \A p \in consulted :
          (~IsDir(before.fs, p) /\ ~Excluded(p)) =>
              /\ Cardinality({i \in DOMAIN nodes : nodes[i].at = p}) = 1
              /\ \A n \in NodeSet : n.at = p =>
                    /\ n.tag = "file"
                    /\ [i \in DOMAIN n.attrs |-> n.attrs[i][1]] = <<<<"n", "a", "m", "e">>, <<"p", "a", "t", "h">>, <<"l", "a", "n", "g", "u", "a", "g", "e">>>>
                    /\ Len(n.contents) = 1
                    /\ LET e == before.fs[p]
                       IN IF e.kind = "file" /\ e.size > TenMiB
                          THEN n.contents[1] = C6_Placeholder(e.size)
                          ELSE IF e.kind = "link" \/ e.fault # "none"
                          THEN C10_FailureText(n.contents[1])
                          ELSE n.contents[1] = Sanitize(ReadText(e.text))
    /\ pc \in {"list", "loop", "makedirs"} => result = "none"

\* C10 witness: a run has ended whose tree holds the node of a file that
\* could not be opened, with the failure placeholder as its one content.
C10_Witness ==
    /\ Ended /\ result = "ok"
    /\ \E n \in NodeSet :
          /\ IsFile(before.fs, n.at) /\ before.fs[n.at].fault = "PermissionError"
          /\ before.fs[n.at].size <= TenMiB
          /\ Len(n.contents) = 1 /\ C10_FailureText(n.contents[1])


====
